---- MODULE Spec2Model ----
(***************************************************************************)
(* Model of the PDF ingestion / question answering backend                 *)
(* (backend/app): the document status life cycle driven by the queue       *)
(* endpoint, the worker endpoint and processing.process_document, the      *)
(* chunk store they write, the search gate that reads it, and the          *)
(* generate_response assembler of services/chat.py.                        *)
(*                                                                         *)
(* Every call on the document store or chunk store is one atomic step:     *)
(* the handlers run in separate requests (and service instances), so they  *)
(* interleave between any two store calls.                                 *)
(***************************************************************************)
EXTENDS Integers, Sequences, FiniteSets, TLC

\* ---------------------------------------------------------------- bounds
NumDocs == 1        \* documents in the document store
MaxRuns == 2        \* worker invocations (POST /process/worker)
NumChunks == 2      \* chunks chunk_text cuts from a document's text
MaxQueueReqs == 1   \* queue requests (POST /process)
MaxQueries == 1     \* concurrent search_chunks calls
MaxUploads == 2     \* upload_link calls (POST /upload_link)

Docs == 1..NumDocs
Runs == 1..MaxRuns
QReqs == 1..MaxQueueReqs
Queries == 1..MaxQueries
Uploads == 1..MaxUploads

\* models/document.py DocumentStatus
DocumentStatus == {"pending", "queued", "processing", "completed", "failed"}

VARIABLES
    env,        \* settings.environment
    status,     \* documents.status, per document
    errmsg,     \* documents.error_message is set, per document
    chunks,     \* document_chunks rows: [doc, run, idx]
    tasks,      \* Cloud Tasks created, per document
    wPc,        \* position of each worker invocation
    wDoc,       \* its document_id
    wValid,     \* len(valid_chunks) of its process_document
    wNext,      \* index of the next chunk its store loop inserts
    wStoreErr,  \* a create_chunk of this run raised
    wFailStage, \* the stage whose exception ended this run's pipeline
    wWrites,    \* the statuses this run has written
    qPc,        \* position of each queue request
    qDoc,       \* its document_id
    sPc,        \* position of each search_chunks call
    sDoc,       \* its document_id
    sRows,      \* the rows its get_document_chunks returned
    gPc,        \* position of the generate_response call
    gDoc,       \* its document_id
    gSeen,      \* what its get_document returned
    gAttempt,   \* the attempt counter of get_embeddings
    gEmbedCalls, \* calls made to the embedding provider
    gGenCalls,  \* calls made to the generation provider
    gRetrieved, \* how retrieve_relevant_chunks ended
    gChunks,    \* relevant_chunks
    gFailed,    \* the collaborators that raised during the call
    gText,      \* response_text: unset, generated text or the fallback text
    gResp,      \* the response returned
    srIn,       \* the arguments and store contents of a search_chunks call
    srOut,      \* what that call returned
    eIn,        \* get_embeddings: number of texts and max_retries
    ePc,        \* get_embeddings: where the call stands
    eAttempt,   \* get_embeddings: the loop variable attempt
    eTries,     \* get_embeddings: attempts begun
    eI,         \* get_embeddings: offset of the next batch
    eAll,       \* get_embeddings: all_embeddings
    eSleeps,    \* get_embeddings: the waits made, in order
    eLast,      \* get_embeddings: attempt that raised last_exception
    ckIn,       \* chunk_text: paragraphs, max_tokens and overlap
    ckOut,      \* chunk_text: the chunks returned
    pIn,        \* pdf_parser: function called, page texts, chunk_size, chunk_overlap
    pPc,        \* pdf_parser: where the call stands
    pPage,      \* pdf_parser: page_idx of the page loop
    pStart,     \* pdf_parser: start of the window loop
    pOut,       \* pdf_parser: chunks / results collected
    uIn,        \* upsert_chunks_with_embeddings: chunks and embeddings
    uOut,       \* upsert_chunks_with_embeddings: how it ended and the rows inserted
    ulPc,       \* upload_link: position of each call
    ulUrl,      \* upload_link: kind of link of each call
    ulHash,     \* upload_link: sha256 of the bytes each call fetched
    ulResp,     \* upload_link: response of each call
    documents,  \* upload_link: rows of the documents table
    storage     \* upload_link: object paths uploaded to storage

ingestVars == <<env, status, errmsg, chunks, tasks, wPc, wDoc, wValid, wNext,
                wStoreErr, wFailStage, wWrites, qPc, qDoc, sPc, sDoc, sRows>>

chatVars == <<gPc, gDoc, gSeen, gAttempt, gEmbedCalls, gGenCalls, gRetrieved,
              gChunks, gFailed, gText, gResp>>

searchFnVars == <<srIn, srOut>>

\* the variables of the function-level specifications
embedVars == <<eIn, ePc, eAttempt, eTries, eI, eAll, eSleeps, eLast>>

chunkVars == <<ckIn, ckOut>>

windowVars == <<pIn, pPc, pPage, pStart, pOut>>

upsertVars == <<uIn, uOut>>

uploadVars == <<ulPc, ulUrl, ulHash, ulResp, documents, storage>>

laterVars == <<windowVars, upsertVars, uploadVars>>

pureVars == <<searchFnVars, embedVars, chunkVars, laterVars>>

vars == <<ingestVars, chatVars, pureVars>>

\* ------------------------------------------------------------ document store

\* DatabaseService.update_document_status: the row's status is overwritten
\* whatever it was; error_message is only touched when one is passed.
UpdateDocumentStatus(d, s, withError) ==
    /\ status' = [status EXCEPT ![d] = s]
    /\ errmsg' = IF withError THEN [errmsg EXCEPT ![d] = TRUE] ELSE errmsg

\* DatabaseService.get_document_chunks: every row of the document
GetDocumentChunks(d) == {c \in chunks : c.doc = d}

\* DatabaseService.create_chunk: one row per call
ChunkRow(d, r, i) == [doc |-> d, run |-> r, idx |-> i]

\* ------------------------------------------------------------------- Init
NoResponse == [kind |-> "none", sources |-> <<>>]

\* no generate_response call has been made
ChatIdle ==
    /\ gPc = "idle"
    /\ gSeen = "unset"
    /\ gAttempt = 0
    /\ gEmbedCalls = 0
    /\ gGenCalls = 0
    /\ gRetrieved = "unset"
    /\ gChunks = <<>>
    /\ gFailed = {}
    /\ gText = "unset"
    /\ gResp = NoResponse

\* no search_chunks call is being looked at
NoSearchCall == [status |-> "none", storeRaises |-> FALSE, rows |-> <<>>,
                 query |-> <<>>, limit |-> 0, threshold |-> [num |-> 0, den2 |-> 1]]
NoSearchResult == [done |-> FALSE, results |-> <<>>]

SearchFnIdle == srIn = NoSearchCall /\ srOut = NoSearchResult

\* no exception caught yet
NoException == -1

\* no get_embeddings call is being looked at
EmbedIdle ==
    /\ eIn = [n |-> 0, maxRetries |-> 0]
    /\ ePc = "idle"
    /\ eAttempt = 0
    /\ eTries = 0
    /\ eI = 0
    /\ eAll = <<>>
    /\ eSleeps = <<>>
    /\ eLast = NoException

\* no chunk_text call is being looked at
ChunkIdle ==
    /\ ckIn = [paragraphs |-> <<>>, max_tokens |-> 0, overlap |-> 0]
    /\ ckOut = [done |-> FALSE, chunks |-> <<>>]

\* no pdf_parser call is being looked at
WindowIdle ==
    /\ pIn = [fn |-> "none", pages |-> <<>>, chunk_size |-> 0, chunk_overlap |-> 0]
    /\ pPc = "idle"
    /\ pPage = 0
    /\ pStart = 0
    /\ pOut = <<>>

\* no upsert_chunks_with_embeddings call is being looked at
UpsertIdle ==
    /\ uIn = [chunks |-> <<>>, embeddings |-> <<>>]
    /\ uOut = [ended |-> "none", rows |-> <<>>]

NoUploadResponse == [code |-> 0, detail |-> "none", document_id |-> 0,
                     deduplicated |-> FALSE]

\* no upload_link request has arrived, the documents table and the bucket
\* are empty
UploadIdle ==
    /\ ulPc = [c \in Uploads |-> "idle"]
    /\ ulUrl = [c \in Uploads |-> "none"]
    /\ ulHash = [c \in Uploads |-> 0]
    /\ ulResp = [c \in Uploads |-> NoUploadResponse]
    /\ documents = {}
    /\ storage = {}

LaterIdle == WindowIdle /\ UpsertIdle /\ UploadIdle

PureIdle == SearchFnIdle /\ EmbedIdle /\ ChunkIdle /\ LaterIdle

\* no request of the ingestion path has arrived
IngestIdle ==
    /\ wPc = [r \in Runs |-> "idle"]
    /\ wDoc = [r \in Runs |-> 1]
    /\ wValid = [r \in Runs |-> 0]
    /\ wNext = [r \in Runs |-> 1]
    /\ wStoreErr = [r \in Runs |-> FALSE]
    /\ wFailStage = [r \in Runs |-> "none"]
    /\ wWrites = [r \in Runs |-> {}]
    /\ qPc = [q \in QReqs |-> "idle"]
    /\ qDoc = [q \in QReqs |-> 1]
    /\ sPc = [s \in Queries |-> "idle"]
    /\ sDoc = [s \in Queries |-> 1]
    /\ sRows = [s \in Queries |-> {}]

Init ==
    /\ ChatIdle
    /\ PureIdle
    /\ gDoc = 0
    /\ IngestIdle
    /\ env \in {"production", "development"}
    /\ status = [d \in Docs |-> "pending"]
    /\ errmsg = [d \in Docs |-> FALSE]
    /\ chunks = {}
    /\ tasks = [d \in Docs |-> 0]

workerLocals == <<wDoc, wValid, wNext, wStoreErr, wFailStage>>
queueVars == <<qPc, qDoc>>
searchVars == <<sPc, sDoc, sRows>>

\* a run writes a status: the store update plus the run's own record of it
RunWrites(r, s, withError) ==
    /\ UpdateDocumentStatus(wDoc[r], s, withError)
    /\ wWrites' = [wWrites EXCEPT ![r] = @ \cup {s}]

\* ------------------------------------------------- POST /process (queue)

\* _process_document_internal up to the QUEUED write
QueueRequest(q, d) ==
    /\ qPc[q] = "idle"
    /\ qDoc' = [qDoc EXCEPT ![q] = d]
    /\ UpdateDocumentStatus(d, "queued", FALSE)
    /\ qPc' = [qPc EXCEPT ![q] = "create_task"]
    /\ UNCHANGED <<env, chunks, tasks, wPc, workerLocals, wWrites, searchVars>>

\* tasks_service.create_task succeeds: the task exists, the request returns
CreateTaskOk(q) ==
    /\ qPc[q] = "create_task"
    /\ tasks' = [tasks EXCEPT ![qDoc[q]] = @ + 1]
    /\ qPc' = [qPc EXCEPT ![q] = "done_queued"]
    /\ UNCHANGED <<env, status, errmsg, chunks, wPc, workerLocals, wWrites,
                   qDoc, searchVars>>

\* tasks_service.create_task fails: its own handler writes FAILED
CreateTaskFail(q) ==
    /\ qPc[q] = "create_task"
    /\ UpdateDocumentStatus(qDoc[q], "failed", TRUE)
    /\ qPc' = [qPc EXCEPT ![q] = "task_failed"]
    /\ UNCHANGED <<env, chunks, tasks, wPc, workerLocals, wWrites, qDoc,
                   searchVars>>

\* variant: the except branch only reports the error
QueueFailSilent(q) ==
    /\ qPc[q] = "task_failed"
    /\ qPc' = [qPc EXCEPT ![q] = "done_error"]
    /\ UNCHANGED <<env, status, errmsg, chunks, tasks, wPc, workerLocals,
                   wWrites, qDoc, searchVars>>

\* the except branch of _process_document_internal writes FAILED again
QueueFail(q) ==
    /\ qPc[q] = "task_failed"
    /\ UpdateDocumentStatus(qDoc[q], "failed", TRUE)
    /\ qPc' = [qPc EXCEPT ![q] = "done_error"]
    /\ UNCHANGED <<env, chunks, tasks, wPc, workerLocals, wWrites, qDoc,
                   searchVars>>

\* ------------------------------------------- POST /process/worker (worker)

\* runs are numbered in the order in which their requests arrive
NextRun(r) == \A r2 \in Runs : r2 < r => wPc[r2] # "idle"

\* variant: the header is demanded outside production only
UnauthorizedOutsideProduction(e, hdr) == e # "production" /\ ~hdr

\* the header check of process_document_worker: in production a request
\* without X-CloudTasks-QueueName is refused
Unauthorized(e, hdr) == e = "production" /\ ~hdr

\* a request carrying the Cloud Tasks header is a dispatch (or redelivery)
\* of a task created for the document; one without it is a direct call
Dispatchable(d, hdr) == hdr => tasks[d] > 0

\* 403: the handler raises before any store call
WorkerReject(r, d, hdr) ==
    /\ wPc[r] = "idle" /\ NextRun(r)
    /\ Dispatchable(d, hdr)
    /\ Unauthorized(env, hdr)
    /\ wDoc' = [wDoc EXCEPT ![r] = d]
    /\ wPc' = [wPc EXCEPT ![r] = "done_403"]
    /\ UNCHANGED <<env, status, errmsg, chunks, tasks, wValid, wNext,
                   wStoreErr, wFailStage, wWrites, queueVars, searchVars>>

\* the worker's PROCESSING write, error_message=None
WorkerBegin(r, d, hdr) ==
    /\ wPc[r] = "idle" /\ NextRun(r)
    /\ Dispatchable(d, hdr)
    /\ ~Unauthorized(env, hdr)
    /\ wDoc' = [wDoc EXCEPT ![r] = d]
    /\ status' = [status EXCEPT ![d] = "processing"]
    /\ wWrites' = [wWrites EXCEPT ![r] = @ \cup {"processing"}]
    /\ wPc' = [wPc EXCEPT ![r] = "pd_begin"]
    /\ UNCHANGED <<env, errmsg, chunks, tasks, wValid, wNext, wStoreErr,
                   wFailStage, queueVars, searchVars>>

\* process_document: its own PROCESSING write
PDBegin(r) ==
    /\ wPc[r] = "pd_begin"
    /\ RunWrites(r, "processing", FALSE)
    /\ wPc' = [wPc EXCEPT ![r] = "pd_load"]
    /\ UNCHANGED <<env, chunks, tasks, workerLocals, queueVars, searchVars>>

\* the stages between the status write and the embedding call, each of
\* which raises ValueError on failure or on an empty result
LoadStages == {"download", "extract", "chunk"}

\* get_document, download_file, process_pdf_content, chunk_text
PDLoadAndChunk(r, failed) ==
    /\ wPc[r] = "pd_load"
    /\ wFailStage' = [wFailStage EXCEPT ![r] = failed]
    /\ wPc' = [wPc EXCEPT ![r] =
                 IF failed = "none" THEN "pd_embed" ELSE "pd_fail_inner"]
    /\ UNCHANGED <<env, status, errmsg, chunks, tasks, wDoc, wValid, wNext,
                   wStoreErr, wWrites, queueVars, searchVars>>

\* generate_embeddings raises (provider error or response without vectors)
PDEmbedRaise(r) ==
    /\ wPc[r] = "pd_embed"
    /\ wFailStage' = [wFailStage EXCEPT ![r] = "embed"]
    /\ wPc' = [wPc EXCEPT ![r] = "pd_fail_inner"]
    /\ UNCHANGED <<env, status, errmsg, chunks, tasks, wDoc, wValid, wNext,
                   wStoreErr, wWrites, queueVars, searchVars>>

\* generate_embeddings returns: the provider sent k vectors for NumChunks
\* texts, chunk i gets vector i for i < k and None otherwise; valid_chunks
\* keeps the chunks with a vector, and none at all is a ValueError
PDEmbed(r, k) ==
    /\ wPc[r] = "pd_embed"
    /\ wValid' = [wValid EXCEPT ![r] = k]
    /\ wNext' = [wNext EXCEPT ![r] = 1]
    /\ wFailStage' = [wFailStage EXCEPT ![r] = IF k = 0 THEN "embed" ELSE @]
    /\ wPc' = [wPc EXCEPT ![r] = IF k = 0 THEN "pd_fail_inner" ELSE "pd_store"]
    /\ UNCHANGED <<env, status, errmsg, chunks, tasks, wDoc, wStoreErr,
                   wWrites, queueVars, searchVars>>

\* one iteration of the store loop whose create_chunk succeeds
PDCreateChunk(r) ==
    /\ wPc[r] = "pd_store" /\ wNext[r] <= wValid[r]
    /\ chunks' = chunks \cup {ChunkRow(wDoc[r], r, wNext[r])}
    /\ wNext' = [wNext EXCEPT ![r] = @ + 1]
    /\ UNCHANGED <<env, status, errmsg, tasks, wPc, wDoc, wValid, wStoreErr,
                   wFailStage, wWrites, queueVars, searchVars>>

\* one iteration whose create_chunk raises: logged, then `continue`
PDCreateChunkRaise(r) ==
    /\ wPc[r] = "pd_store" /\ wNext[r] <= wValid[r]
    /\ wStoreErr' = [wStoreErr EXCEPT ![r] = TRUE]
    /\ wNext' = [wNext EXCEPT ![r] = @ + 1]
    /\ UNCHANGED <<env, status, errmsg, chunks, tasks, wPc, wDoc, wValid,
                   wFailStage, wWrites, queueVars, searchVars>>

\* after the loop: process_document writes COMPLETED
PDSetCompleted(r) ==
    /\ wPc[r] = "pd_store" /\ wNext[r] > wValid[r]
    /\ RunWrites(r, "completed", FALSE)
    /\ wPc' = [wPc EXCEPT ![r] = "w_completed"]
    /\ UNCHANGED <<env, chunks, tasks, workerLocals, queueVars, searchVars>>

\* back in the worker: COMPLETED again, response "processed"
WorkerSetCompleted(r) ==
    /\ wPc[r] = "w_completed"
    /\ RunWrites(r, "completed", FALSE)
    /\ wPc' = [wPc EXCEPT ![r] = "done_processed"]
    /\ UNCHANGED <<env, chunks, tasks, workerLocals, queueVars, searchVars>>

\* the exception travels through five handlers, each writing FAILED with a
\* message: two in process_document, three in the worker
FailChain == <<"pd_fail_inner", "pd_fail_outer", "w_fail_inner",
               "w_fail_middle", "w_fail_outer", "done_failed">>

FailWrite(r, n) ==
    /\ wPc[r] = FailChain[n]
    /\ RunWrites(r, "failed", TRUE)
    /\ wPc' = [wPc EXCEPT ![r] = FailChain[n + 1]]
    /\ UNCHANGED <<env, chunks, tasks, workerLocals, queueVars, searchVars>>

PDFailInner(r) == FailWrite(r, 1)
PDFailOuter(r) == FailWrite(r, 2)
WorkerFailInner(r) == FailWrite(r, 3)
WorkerFailMiddle(r) == FailWrite(r, 4)
WorkerFailOuter(r) == FailWrite(r, 5)

\* ------------------------------------------------ search_chunks (reader)

\* variant: only a failed document is kept out
SearchableUnlessFailed(s) == s \notin {"none", "failed"}

\* the gate of search_chunks: the document exists and is processed
Searchable(s) == s = "completed"

\* get_document, then the status gate: [] unless completed
SearchCheckDocument(s, d) ==
    /\ sPc[s] = "idle"
    /\ sDoc' = [sDoc EXCEPT ![s] = d]
    /\ sPc' = [sPc EXCEPT ![s] =
                 IF Searchable(status[d]) THEN "load" ELSE "done_gated"]
    /\ UNCHANGED <<env, status, errmsg, chunks, tasks, wPc, workerLocals,
                   wWrites, queueVars, sRows>>

\* get_document_chunks: the rows the search ranks and returns from
SearchLoadChunks(s) ==
    /\ sPc[s] = "load"
    /\ sRows' = [sRows EXCEPT ![s] = GetDocumentChunks(sDoc[s])]
    /\ sPc' = [sPc EXCEPT ![s] = "done_searched"]
    /\ UNCHANGED <<env, status, errmsg, chunks, tasks, wPc, workerLocals,
                   wWrites, queueVars, sDoc>>

\* ------------------------------------------------------------------- Next
Next ==
    \/ UNCHANGED <<chatVars, pureVars>> /\ \E q \in QReqs, d \in Docs : QueueRequest(q, d)
    \/ UNCHANGED <<chatVars, pureVars>> /\ \E q \in QReqs : CreateTaskOk(q)
    \/ UNCHANGED <<chatVars, pureVars>> /\ \E q \in QReqs : CreateTaskFail(q)
    \/ UNCHANGED <<chatVars, pureVars>> /\ \E q \in QReqs : QueueFail(q)
    \/ UNCHANGED <<chatVars, pureVars>> /\ \E r \in Runs, d \in Docs, hdr \in BOOLEAN : WorkerReject(r, d, hdr)
    \/ UNCHANGED <<chatVars, pureVars>> /\ \E r \in Runs, d \in Docs, hdr \in BOOLEAN : WorkerBegin(r, d, hdr)
    \/ UNCHANGED <<chatVars, pureVars>> /\ \E r \in Runs : PDBegin(r)
    \/ UNCHANGED <<chatVars, pureVars>> /\ \E r \in Runs, f \in LoadStages \cup {"none"} : PDLoadAndChunk(r, f)
    \/ UNCHANGED <<chatVars, pureVars>> /\ \E r \in Runs : PDEmbedRaise(r)
    \/ UNCHANGED <<chatVars, pureVars>> /\ \E r \in Runs, k \in 0..NumChunks : PDEmbed(r, k)
    \/ UNCHANGED <<chatVars, pureVars>> /\ \E r \in Runs : PDCreateChunk(r)
    \/ UNCHANGED <<chatVars, pureVars>> /\ \E r \in Runs : PDCreateChunkRaise(r)
    \/ UNCHANGED <<chatVars, pureVars>> /\ \E r \in Runs : PDSetCompleted(r)
    \/ UNCHANGED <<chatVars, pureVars>> /\ \E r \in Runs : WorkerSetCompleted(r)
    \/ UNCHANGED <<chatVars, pureVars>> /\ \E r \in Runs : PDFailInner(r)
    \/ UNCHANGED <<chatVars, pureVars>> /\ \E r \in Runs : PDFailOuter(r)
    \/ UNCHANGED <<chatVars, pureVars>> /\ \E r \in Runs : WorkerFailInner(r)
    \/ UNCHANGED <<chatVars, pureVars>> /\ \E r \in Runs : WorkerFailMiddle(r)
    \/ UNCHANGED <<chatVars, pureVars>> /\ \E r \in Runs : WorkerFailOuter(r)
    \/ UNCHANGED <<chatVars, pureVars>> /\ \E s \in Queries, d \in Docs : SearchCheckDocument(s, d)
    \/ UNCHANGED <<chatVars, pureVars>> /\ \E s \in Queries : SearchLoadChunks(s)

Spec == Init /\ [][Next]_vars

\* ============================================== claims on the ingestion path

Terminated(r) == wPc[r] \in {"done_processed", "done_failed", "done_403"}
Active(r) == wPc[r] # "idle" /\ ~Terminated(r)

\* the life cycle of the data model: pending -> queued -> processing ->
\* completed | failed
LifecycleEdges ==
    { <<"pending", "queued">>, <<"queued", "processing">>,
      <<"processing", "completed">>, <<"processing", "failed">> }

\* C1: a document's persisted status only ever moves along the life cycle
\* pending -> queued -> processing -> completed | failed, and a completed or
\* failed status is never changed again.
C1_StatusFollowsLifecycle ==
    [][\A d \in Docs :
         status'[d] # status[d] => <<status[d], status'[d]>> \in LifecycleEdges]_vars

\* the run is inside its store loop with a create_chunk call still to make
Inserting(r) == wPc[r] = "pd_store" /\ wNext[r] <= wValid[r]

\* every chunk of the document's text was stored by run r, which then wrote
\* COMPLETED
FullyWritten(r) ==
    /\ "completed" \in wWrites[r]
    /\ \A i \in 1..NumChunks : ChunkRow(wDoc[r], r, i) \in chunks

\* C2: a search that returns rows of a document does so while no ingestion
\* run is writing chunks of that document, and all the rows come from one
\* chunk set that was fully written before its run marked it completed.
C2_SearchSeesOneCompleteChunkSet ==
    [][\A s \in Queries :
         (sPc[s] = "load" /\ sPc'[s] = "done_searched" /\ sRows'[s] # {})
         => /\ ~\E r \in Runs : wDoc[r] = sDoc[s] /\ Inserting(r)
            /\ \E r \in Runs : /\ FullyWritten(r)
                               /\ \A c \in sRows'[s] : c.run = r]_vars

\* the run has inserted a chunk and has another one to insert
MidStore(r) == Inserting(r) /\ wNext[r] > 1

\* C3: two ingestion runs of the same document are never both in the middle
\* of their store loops, so their create_chunk calls never interleave.
C3_OneWriterPerDocument ==
    \A r1, r2 \in Runs :
        (r1 # r2 /\ MidStore(r1) /\ MidStore(r2)) => wDoc[r1] # wDoc[r2]

\* something went wrong in one of the run's stages
StageFailed(r) == wFailStage[r] # "none" \/ wStoreErr[r]

\* C4: a run in which download, extraction, chunking, embedding or storing
\* failed has written status failed by the time it ends, and a document is
\* in status processing only while a run on it is still going.
C4_FailedRunWritesFailed ==
    /\ \A r \in Runs :
          (Terminated(r) /\ StageFailed(r)) => "failed" \in wWrites[r]
    /\ \A d \in Docs :
          status[d] = "processing" => \E r \in Runs : Active(r) /\ wDoc[r] = d

\* C5: a run one of whose create_chunk calls raised never marks the document
\* completed, and ends as a failed run.
C5_StoreErrorFailsRun ==
    \A r \in Runs :
        wStoreErr[r] => /\ "completed" \notin wWrites[r]
                        /\ Terminated(r) => wPc[r] = "done_failed"

\* C6: once two runs of the same document have completed, no chunk written
\* by the earlier run is left in the chunk store.
C6_ReprocessReplacesChunks ==
    \A r1, r2 \in Runs :
        (/\ r1 < r2 /\ wDoc[r1] = wDoc[r2]
         /\ wPc[r1] = "done_processed" /\ wPc[r2] = "done_processed")
        => \A c \in GetDocumentChunks(wDoc[r2]) : c.run # r1

\* ==================================================== chat.generate_response

TopK == 3          \* top_k passed by generate_response
MaxRetries == 3    \* max_retries of get_embeddings
PreviewLen == 200  \* characters of a chunk shown as a source

NoSuchDoc == 0
DocIds == Docs \cup {NoSuchDoc}

\* DatabaseService.get_document, reduced to the status of the row
GetDocument(d) == IF d \in Docs THEN status[d] ELSE "none"

\* the rows ingestion can have left for a document
AllRows(d) == {ChunkRow(d, r, i) : r \in Runs, i \in 1..NumChunks}

\* the text of chunk i of a document is the same in every run; its length
ContentLen(i) == 150 * i

Min(a, b) == IF a <= b THEN a ELSE b

\* chunk["content"][:200] + "..."
Preview(c) ==
    [idx |-> c.idx, run |-> c.run,
     len |-> Min(ContentLen(c.idx), PreviewLen), ellipsis |-> TRUE]

\* variant: the previews are listed last chunk first
SourcesReversed(chs) ==
    [i \in 1..Len(chs) |-> Preview(chs[Len(chs) + 1 - i])]

\* [chunk["content"][:200] + "..." for chunk in relevant_chunks]
Sources(chs) == [i \in 1..Len(chs) |-> Preview(chs[i])]

\* variant: an error return that still lists the retrieved chunks
ErrorResponseWithSources(kind) == [kind |-> kind, sources |-> Sources(gChunks)]

\* the returns of the except branches and early exits: sources is empty
ErrorResponse(kind) == [kind |-> kind, sources |-> <<>>]

\* variant: a document still in processing is let through
DocReadyOrProcessing(s) == s \in {"completed", "processing"}

\* generate_response goes on only with a document in status completed
DocReady(s) == s = "completed"

\* variant: the emptiness test never fires
NeverNoChunks(chs) == FALSE

\* `if not relevant_chunks`
NoChunks(chs) == chs = <<>>

\* what search_chunks can return for a document: the rows that clear the
\* threshold for the query at hand, ranked, cut to limit; [] behind the gate
SearchResults(d, limit) ==
    IF ~Searchable(GetDocument(d)) THEN {<<>>}
    ELSE {q \in UNION {[1..k -> GetDocumentChunks(d)] : k \in 0..limit} :
            \A i, j \in DOMAIN q : i # j => q[i] # q[j]}

\* the chat path starts from a document store and a chunk store as ingestion
\* can have left them (each run has stored some of the chunks, in order), and
\* one call generate_response(message, d, user)
InitChat ==
    /\ ChatIdle
    /\ PureIdle
    /\ IngestIdle
    /\ env = "production"
    /\ errmsg = [d \in Docs |-> FALSE]
    /\ tasks = [d \in Docs |-> 0]
    /\ gDoc \in DocIds
    /\ \E s \in DocumentStatus :
          status = [d \in Docs |-> IF d = gDoc THEN s ELSE "pending"]
    /\ \E stored \in [Runs -> 0..NumChunks] :
          chunks = {c \in AllRows(gDoc) : c.idx <= stored[c.run]}
    /\ status[IF gDoc \in Docs THEN gDoc ELSE 1] = "pending" => chunks = {}
    /\ gDoc \notin Docs => chunks = {}

chatRest == <<env, errmsg, chunks, tasks, wPc, workerLocals, wWrites,
              queueVars, searchVars, pureVars>>

Return(resp) ==
    /\ gResp' = resp
    /\ gPc' = "returned"

\* get_document raises: "Error accessing the document"
GenCheckDocumentRaise ==
    /\ gPc = "idle"
    /\ gSeen' = "error"
    /\ gFailed' = gFailed \cup {"docstore"}
    /\ Return(ErrorResponse("doc_error"))
    /\ UNCHANGED <<status, chatRest, gDoc, gAttempt, gEmbedCalls, gGenCalls,
                   gRetrieved, gChunks, gText>>

\* get_document returns: not found, not completed, or go on
GenCheckDocument ==
    /\ gPc = "idle"
    /\ gSeen' = GetDocument(gDoc)
    /\ IF gSeen' = "none" THEN Return(ErrorResponse("not_found"))
       ELSE IF ~DocReady(gSeen') THEN Return(ErrorResponse("not_ready"))
       ELSE gPc' = "embed" /\ gResp' = gResp
    /\ UNCHANGED <<status, chatRest, gDoc, gAttempt, gEmbedCalls, gGenCalls,
                   gRetrieved, gChunks, gFailed, gText>>

\* an attempt of get_embeddings whose provider call succeeds
GenEmbedOk ==
    /\ gPc = "embed"
    /\ gEmbedCalls' = gEmbedCalls + 1
    /\ gPc' = "search"
    /\ UNCHANGED <<status, chatRest, gDoc, gSeen, gAttempt, gGenCalls,
                   gRetrieved, gChunks, gFailed, gText, gResp>>

\* what retrieve_relevant_chunks returns from its except branch
RetrieveOnError == <<>>

\* the return of generate_response when retrieval came back empty
EmptyRetrievalResponse == ErrorResponse("no_relevant")

\* an attempt whose provider call raises: sleep and retry, or after the last
\* attempt raise; retrieve_relevant_chunks catches that and returns []
GenEmbedFail ==
    /\ gPc = "embed"
    /\ gEmbedCalls' = gEmbedCalls + 1
    /\ gAttempt' = gAttempt + 1
    /\ IF gAttempt + 1 < MaxRetries
       THEN UNCHANGED <<gPc, gResp, gRetrieved, gChunks, gFailed>>
       ELSE /\ gRetrieved' = "embed_failed"
            /\ gFailed' = gFailed \cup {"embedding"}
            /\ gChunks' = RetrieveOnError
            /\ IF NoChunks(gChunks') THEN Return(EmptyRetrievalResponse)
               ELSE gPc' = "generate" /\ gResp' = gResp
    /\ UNCHANGED <<status, chatRest, gDoc, gSeen, gGenCalls, gText>>

\* search_chunks returns its result
GenSearch ==
    /\ gPc = "search"
    /\ gRetrieved' = "searched"
    /\ gChunks' \in SearchResults(gDoc, TopK)
    /\ IF NoChunks(gChunks') THEN Return(EmptyRetrievalResponse)
       ELSE gPc' = "generate" /\ gResp' = gResp
    /\ UNCHANGED <<status, chatRest, gDoc, gSeen, gAttempt, gEmbedCalls,
                   gGenCalls, gFailed, gText>>

\* search_chunks hits an exception: it logs it and returns []
GenSearchRaise ==
    /\ gPc = "search"
    /\ gRetrieved' = "search_error"
    /\ gFailed' = gFailed \cup {"search"}
    /\ gChunks' = <<>>
    /\ IF NoChunks(gChunks') THEN Return(EmptyRetrievalResponse)
       ELSE gPc' = "generate" /\ gResp' = gResp
    /\ UNCHANGED <<status, chatRest, gDoc, gSeen, gAttempt, gEmbedCalls,
                   gGenCalls, gText>>

\* model.generate_content returns text, or returns none and the fallback
\* text is used
GenGenerate(text) ==
    /\ gPc = "generate"
    /\ gGenCalls' = gGenCalls + 1
    /\ gText' = text
    /\ gPc' = "log"
    /\ UNCHANGED <<status, chatRest, gDoc, gSeen, gAttempt, gEmbedCalls,
                   gRetrieved, gChunks, gFailed, gResp>>

\* variant: a failed generation call is tried again, up to MaxRetries calls
GenGenerateRaiseRetry ==
    /\ gPc = "generate"
    /\ gGenCalls' = gGenCalls + 1
    /\ IF gGenCalls + 1 < MaxRetries
       THEN UNCHANGED <<gPc, gResp, gFailed>>
       ELSE /\ gFailed' = gFailed \cup {"generation"}
            /\ gResp' = [kind |-> "gen_trouble", sources |-> <<>>]
            /\ gPc' = "returned"
    /\ UNCHANGED <<status, chatRest, gDoc, gSeen, gAttempt, gEmbedCalls,
                   gRetrieved, gChunks, gText>>

\* model.generate_content raises: "trouble processing your request"
GenGenerateRaise ==
    /\ gPc = "generate"
    /\ gGenCalls' = gGenCalls + 1
    /\ gFailed' = gFailed \cup {"generation"}
    /\ Return(ErrorResponse("gen_trouble"))
    /\ UNCHANGED <<status, chatRest, gDoc, gSeen, gAttempt, gEmbedCalls,
                   gRetrieved, gChunks, gText>>

\* the final return: the text and one preview per chunk
Answer(text, chs) ==
    [kind |-> IF text = "text" THEN "answer" ELSE "answer_fallback",
     sources |-> Sources(chs)]

\* log_chat_interaction, whose exception is only logged, then the return
GenLogAndReturn(logged) ==
    /\ gPc = "log"
    /\ gFailed' = IF logged THEN gFailed ELSE gFailed \cup {"logging"}
    /\ Return(Answer(gText, gChunks))
    /\ UNCHANGED <<status, chatRest, gDoc, gSeen, gAttempt, gEmbedCalls,
                   gGenCalls, gRetrieved, gChunks, gText>>

\* a handler of the ingestion path writes the document's status between the
\* call's own check of it and the check inside search_chunks (the call does
\* not read the status again after that)
ConcurrentStatusWrite(s) ==
    /\ gPc \in {"embed", "search"}
    /\ gDoc \in Docs
    /\ status[gDoc] # s
    /\ status' = [status EXCEPT ![gDoc] = s]
    /\ UNCHANGED <<chatRest, chatVars>>

NextChat ==
    \/ GenCheckDocumentRaise
    \/ GenCheckDocument
    \/ GenEmbedOk
    \/ GenEmbedFail
    \/ GenSearch
    \/ GenSearchRaise
    \/ \E text \in {"text", "fallback"} : GenGenerate(text)
    \/ GenGenerateRaise
    \/ \E logged \in BOOLEAN : GenLogAndReturn(logged)
    \/ \E s \in DocumentStatus \ {"pending"} : ConcurrentStatusWrite(s)

SpecChat == InitChat /\ [][NextChat]_vars

\* =================================================== claims on the chat path

\* C7: when get_document finds no document or one whose status is not
\* completed, generate_response returns at once with the not-found or
\* not-ready message and no sources, and neither the embedding provider nor
\* the generation provider has been called.
C7_NotReadyCallsNoProvider ==
    gSeen \notin {"unset", "error", "completed"}
    => /\ gPc = "returned"
       /\ gResp.kind = (IF gSeen = "none" THEN "not_found" ELSE "not_ready")
       /\ gResp.sources = <<>>
       /\ gEmbedCalls = 0
       /\ gGenCalls = 0

C7_Witness ==
    /\ gPc = "returned"
    /\ gSeen = "pending"
    /\ gResp = ErrorResponse("not_ready")
    /\ gEmbedCalls = 0 /\ gGenCalls = 0

\* the collaborators whose failure keeps the call from producing an answer
FatalCollaborators == {"docstore", "embedding", "search", "generation"}

ResponseKinds ==
    {"not_found", "not_ready", "doc_error", "no_relevant", "gen_trouble",
     "answer", "answer_fallback"}

C9_EmbeddingFailureIsReported ==
    (gPc = "returned" /\ gRetrieved = "embed_failed")
    => /\ gResp.kind = "search_unavailable"
       /\ gResp.kind # EmptyRetrievalResponse.kind

\* C10: when the search for a document seen as completed returns no chunk,
\* the response is the "no relevant information" message with no sources
\* and the generation provider has not been called.
C10_EmptySearchSkipsGeneration ==
    (gSeen = "completed" /\ gRetrieved = "searched" /\ gChunks = <<>>)
    => /\ gPc = "returned"
       /\ gResp = [kind |-> "no_relevant", sources |-> <<>>]
       /\ gGenCalls = 0

C10_Witness ==
    /\ gPc = "returned"
    /\ gRetrieved = "searched" /\ gChunks = <<>>
    /\ status[gDoc] = "completed" /\ GetDocumentChunks(gDoc) # {}
    /\ gResp.kind = "no_relevant"
    /\ gEmbedCalls = 1 /\ gGenCalls = 0

\* C11: when the generation call raises, the response is the "trouble"
\* message with no sources, and the call is not repeated: one call of
\* generate_response calls the generation provider at most once.
C11_GenerationFailureNotRetried ==
    /\ gGenCalls <= 1
    /\ "generation" \in gFailed
       => /\ gPc = "returned"
          /\ gResp = [kind |-> "gen_trouble", sources |-> <<>>]
          /\ gGenCalls = 1

C11_Witness ==
    /\ gPc = "returned"
    /\ gFailed = {"generation"}
    /\ gGenCalls = 1
    /\ gResp.kind = "gen_trouble" /\ gResp.sources = <<>>

\* the call ended with the generated (or fallback) text
Answered == gPc = "returned" /\ gResp.kind \in {"answer", "answer_fallback"}

\* C12: an answer lists exactly one source per chunk the search returned, at
\* most top_k of them, and source i is the preview (first 200 characters and
\* "...") of the chunk ranked i.
C12_SourcesFollowRank ==
    Answered
    => /\ Len(gResp.sources) = Len(gChunks)
       /\ Len(gResp.sources) <= TopK
       /\ \A i \in 1..Len(gChunks) :
             /\ gResp.sources[i].idx = gChunks[i].idx
             /\ gResp.sources[i].run = gChunks[i].run
             /\ gResp.sources[i].len =
                  (IF ContentLen(gChunks[i].idx) < PreviewLen
                   THEN ContentLen(gChunks[i].idx) ELSE PreviewLen)
             /\ gResp.sources[i].ellipsis

C12_Witness ==
    /\ Answered
    /\ Len(gChunks) = TopK
    /\ gChunks[1].idx > gChunks[2].idx
    /\ gResp.sources[1].len # gResp.sources[2].len

\* C18: the embedding step hands back one vector per text, and a provider
\* answer with fewer vectors than texts fails the step: no run goes on to
\* store chunks while some of its chunks have no vector.
C18_ShortBatchFailsEmbedding ==
    \A r \in Runs : wPc[r] = "pd_store" => wValid[r] = NumChunks

(***************************************************************************)
(* DatabaseService.search_chunks as a function of its arguments and of     *)
(* what the store holds.  Embeddings are integer vectors; a similarity is  *)
(* kept exact as the pair (num, den2) standing for num / sqrt(den2).       *)
(***************************************************************************)
MaxRows == 3

\* a row without an embedding
NoEmbedding == <<>>

\* the vectors a stored row may carry: none, zero norm, another
\* dimensionality than the query, and two ordinary ones
EmbeddingValues == {NoEmbedding, <<0, 0>>, <<1, 0, 0>>, <<1, 0>>, <<1, 1>>}

QueryValues == {<<1, 0>>, <<1, 1>>, <<0, 0>>}

\* 0.5 and 0.8
ThresholdValues == {[num |-> 1, den2 |-> 4], [num |-> 4, den2 |-> 25]}

LimitValues == {1, 2}

SearchStatuses == {"none", "processing", "completed"}

\* the rows of one document in the order the store hands them out
RowLists ==
    UNION {{rows \in [1..n -> [idx : 1..MaxRows, emb : EmbeddingValues]] :
                \A i, j \in 1..n : i # j => rows[i].idx # rows[j].idx} :
           n \in 0..MaxRows}

RECURSIVE DotFrom(_, _, _)
DotFrom(a, b, i) ==
    IF i > Len(a) THEN 0 ELSE a[i] * b[i] + DotFrom(a, b, i + 1)

Dot(a, b) == DotFrom(a, b, 1)

NormSq(a) == Dot(a, a)

\* the cases in which the loop body leaves a chunk out without scoring it
SkipsChunk(q, e) ==
    \/ e = NoEmbedding
    \/ NormSq(q) = 0
    \/ NormSq(e) = 0
    \/ Len(e) # Len(q)

Similarity(q, e) == [num |-> Dot(q, e), den2 |-> NormSq(q) * NormSq(e)]

\* a >= b for two similarities
SimGE(a, b) ==
    IF a.num >= 0
    THEN b.num < 0 \/ a.num * a.num * b.den2 >= b.num * b.num * a.den2
    ELSE b.num < 0 /\ a.num * a.num * b.den2 <= b.num * b.num * a.den2

SimEq(a, b) == SimGE(a, b) /\ SimGE(b, a)

\* variant: the threshold test is made on the dot product, not divided
\* by the norms
DotClearsThreshold(sim, t) == SimGE([num |-> sim.num, den2 |-> 1], t)

ClearsThreshold(sim, t) == SimGE(sim, t)

Qualifies(q, row, t) ==
    /\ ~SkipsChunk(q, row.emb)
    /\ ClearsThreshold(Similarity(q, row.emb), t)

\* variant: one unusable chunk ends the whole loop with nothing
RECURSIVE ScoreRowsAborting(_, _, _)
ScoreRowsAborting(rows, q, t) ==
    IF rows = <<>> THEN <<>>
    ELSE IF \E i \in 1..Len(rows) : SkipsChunk(q, rows[i].emb) THEN <<>>
    ELSE LET row == Head(rows)
             rest == ScoreRowsAborting(Tail(rows), q, t)
         IN  IF Qualifies(q, row, t)
             THEN <<[idx |-> row.idx, similarity |-> Similarity(q, row.emb)]>> \o rest
             ELSE rest

\* the loop over the rows: the qualifying ones, in row order
RECURSIVE ScoreRows(_, _, _)
ScoreRows(rows, q, t) ==
    IF rows = <<>> THEN <<>>
    ELSE LET row == Head(rows)
             rest == ScoreRows(Tail(rows), q, t)
         IN  IF Qualifies(q, row, t)
             THEN <<[idx |-> row.idx, similarity |-> Similarity(q, row.emb)]>> \o rest
             ELSE rest

\* x goes behind every entry that is at least as similar
RECURSIVE InsertDesc(_, _)
InsertDesc(sorted, x) ==
    IF sorted = <<>> THEN <<x>>
    ELSE IF SimGE(Head(sorted).similarity, x.similarity)
         THEN <<Head(sorted)>> \o InsertDesc(Tail(sorted), x)
         ELSE <<x>> \o sorted

RECURSIVE SortDescFrom(_, _)
SortDescFrom(done, todo) ==
    IF todo = <<>> THEN done
    ELSE SortDescFrom(InsertDesc(done, Head(todo)), Tail(todo))

\* list.sort(key = similarity, reverse = True): stable
SortDesc(results) == SortDescFrom(<<>>, results)

\* variant: the slice keeps one entry too many
TakeOneMore(results, limit) == SubSeq(results, 1, Min(limit + 1, Len(results)))

\* results[:limit]
Take(results, limit) == SubSeq(results, 1, Min(limit, Len(results)))

SearchChunks(in) ==
    IF ~Searchable(in.status) THEN <<>>
    ELSE IF in.storeRaises THEN <<>>
    ELSE IF in.rows = <<>> THEN <<>>
    ELSE Take(SortDesc(ScoreRows(in.rows, in.query, in.threshold)), in.limit)

\* nothing of the service is running: the function-level specifications
\* start here
ServiceIdle ==
    /\ ChatIdle
    /\ gDoc = 0
    /\ IngestIdle
    /\ env = "production"
    /\ status = [d \in Docs |-> "pending"]
    /\ errmsg = [d \in Docs |-> FALSE]
    /\ chunks = {}
    /\ tasks = [d \in Docs |-> 0]

InitSearch ==
    /\ ServiceIdle
    /\ EmbedIdle
    /\ ChunkIdle
    /\ LaterIdle
    /\ srIn \in [status : SearchStatuses, storeRaises : BOOLEAN, rows : RowLists,
                 query : QueryValues, limit : LimitValues,
                 threshold : ThresholdValues]
    /\ srOut = NoSearchResult

CallSearchChunks ==
    /\ ~srOut.done
    /\ srOut' = [done |-> TRUE, results |-> SearchChunks(srIn)]
    /\ UNCHANGED <<ingestVars, chatVars, srIn, embedVars, chunkVars, laterVars>>

NextSearch == CallSearchChunks

SpecSearch == InitSearch /\ [][NextSearch]_vars

\* ------------------------------------------ properties of search_chunks

\* the rows of the call that the loop would score and keep
QualifyingRows ==
    {i \in 1..Len(srIn.rows) : Qualifies(srIn.query, srIn.rows[i], srIn.threshold)}

RowSimilarity(i) == Similarity(srIn.query, srIn.rows[i].emb)

ReturnedIdx == {srOut.results[k].idx : k \in 1..Len(srOut.results)}

\* C13: search_chunks returns nothing for a document that does not exist
\* or whose status is not completed, whatever rows are stored for it.
C13_OnlyCompletedIsSearched ==
    (srOut.done /\ srIn.status # "completed") => srOut.results = <<>>

C13_Witness ==
    /\ srOut.done
    /\ srIn.status = "processing"
    /\ ~srIn.storeRaises
    /\ Cardinality(QualifyingRows) >= 2
    /\ srOut.results = <<>>

\* C14: every result search_chunks returns has a similarity of at least
\* similarity_threshold, for every document, query, limit and threshold.
C14_ResultsClearThreshold ==
    srOut.done =>
        \A k \in 1..Len(srOut.results) :
            SimGE(srOut.results[k].similarity, srIn.threshold)

C14_Witness ==
    /\ srOut.done
    /\ srOut.results # <<>>
    /\ \E i \in 1..Len(srIn.rows) :
           /\ ~SkipsChunk(srIn.query, srIn.rows[i].emb)
           /\ ~SimGE(RowSimilarity(i), srIn.threshold)
           /\ srIn.rows[i].idx \notin ReturnedIdx

\* C15: the results of search_chunks are in descending order of similarity,
\* and of two results of equal similarity the one with the smaller chunk
\* sequence index comes first.
C15_SortedWithIndexTieBreak ==
    srOut.done =>
        \A j, k \in 1..Len(srOut.results) :
            j < k =>
                /\ SimGE(srOut.results[j].similarity, srOut.results[k].similarity)
                /\ SimEq(srOut.results[j].similarity, srOut.results[k].similarity)
                       => srOut.results[j].idx < srOut.results[k].idx

\* C16: search_chunks returns exactly the min(limit, n) highest-ranked of the
\* n rows that pass the threshold filter: never more than limit entries, and
\* no omitted qualifying row is more similar than a returned one.
C16_TopLimitOfQualifying ==
    (srOut.done /\ srIn.status = "completed" /\ ~srIn.storeRaises) =>
        /\ Len(srOut.results) = Min(srIn.limit, Cardinality(QualifyingRows))
        /\ Len(srOut.results) <= srIn.limit
        /\ Cardinality(ReturnedIdx) = Len(srOut.results)
        /\ \A k \in 1..Len(srOut.results) :
               \E i \in QualifyingRows :
                   /\ srIn.rows[i].idx = srOut.results[k].idx
                   /\ RowSimilarity(i) = srOut.results[k].similarity
        /\ \A i \in QualifyingRows :
               srIn.rows[i].idx \notin ReturnedIdx =>
                   \A k \in 1..Len(srOut.results) :
                       SimGE(srOut.results[k].similarity, RowSimilarity(i))

C16_Witness ==
    /\ srOut.done
    /\ srIn.status = "completed"
    /\ ~srIn.storeRaises
    /\ Cardinality(QualifyingRows) = 3
    /\ srIn.limit = 2
    /\ Len(srOut.results) = 2
    /\ \E i \in QualifyingRows :
           /\ srIn.rows[i].idx \notin ReturnedIdx
           /\ ~SimGE(RowSimilarity(i), srOut.results[2].similarity)

\* a chunk the search cannot score: no embedding, a zero-norm embedding, or
\* an embedding of another dimensionality than the query vector
BadChunk(row) ==
    \/ row.emb = NoEmbedding
    \/ NormSq(row.emb) = 0
    \/ Len(row.emb) # Len(srIn.query)

\* C17: a chunk with a missing, zero-norm or wrongly sized embedding is
\* skipped without failing the search: the result is the one the search
\* gives when the bad chunks are absent from the store.
C17_BadChunksAreSkipped ==
    srOut.done =>
        srOut.results =
            SearchChunks([srIn EXCEPT
                !.rows = SelectSeq(srIn.rows, LAMBDA row : ~BadChunk(row))])

C17_Witness ==
    /\ srOut.done
    /\ srOut.results # <<>>
    /\ \E i, j \in 1..Len(srIn.rows) :
           /\ srIn.rows[i].emb = <<1, 0, 0>>
           /\ srIn.rows[j].emb \in {NoEmbedding, <<0, 0>>}
           /\ i < j
           /\ \E k \in 1..Len(srIn.rows) : j < k /\ k \in QualifyingRows

(***************************************************************************)
(* get_embeddings of the chat service, step by step: the retry loop, the   *)
(* batches of one attempt, and the waits between attempts.  A vector is    *)
(* named by the attempt that fetched it and the text it belongs to.        *)
(***************************************************************************)
MaxTexts == 11
MaxRetriesArg == 6

BatchSize == 10
BackoffCap == 10

RECURSIVE Pow2(_)
Pow2(a) == IF a = 0 THEN 1 ELSE 2 * Pow2(a - 1)

\* variant: the wait keeps doubling
BackoffUncapped(attempt) == Pow2(attempt)

\* wait_time of a failed attempt
Backoff(attempt) == Min(Pow2(attempt), BackoffCap)

\* the texts of the batch that starts at offset i
Batch(i) == (i + 1)..Min(i + BatchSize, eIn.n)

\* the vectors of one provider answer, in the order of the batch; a short
\* answer lacks the vector of the last text
BatchVectors(i, short) ==
    LET upto == IF short THEN Min(i + BatchSize, eIn.n) - 1
                ELSE Min(i + BatchSize, eIn.n)
    IN  [k \in 1..(upto - i) |-> [attempt |-> eAttempt, text |-> i + k]]

InitEmbed ==
    /\ ServiceIdle
    /\ SearchFnIdle
    /\ ChunkIdle
    /\ LaterIdle
    /\ eIn \in [n : 0..MaxTexts, maxRetries : 1..MaxRetriesArg]
    /\ ePc = "loop"
    /\ eAttempt = 0
    /\ eTries = 0
    /\ eI = 0
    /\ eAll = <<>>
    /\ eSleeps = <<>>
    /\ eLast = NoException

embedRest == <<ingestVars, chatVars, searchFnVars, chunkVars, laterVars, eIn>>

\* the loop head takes the next attempt: all_embeddings starts empty
EmbedAttemptBegin ==
    /\ ePc = "loop" /\ eAttempt < eIn.maxRetries
    /\ eTries' = eTries + 1
    /\ eAll' = <<>>
    /\ eI' = 0
    /\ ePc' = "batches"
    /\ UNCHANGED <<embedRest, eAttempt, eSleeps, eLast>>

\* embed_content answers for the batch at offset eI
EmbedBatch(short) ==
    /\ ePc = "batches" /\ eI < eIn.n
    /\ eAll' = eAll \o BatchVectors(eI, short)
    /\ eI' = eI + BatchSize
    /\ UNCHANGED <<embedRest, ePc, eAttempt, eTries, eSleeps, eLast>>

\* embed_content raises for the batch at offset eI: the attempt is over,
\* and unless it was the last one the call waits
EmbedBatchRaise ==
    /\ ePc = "batches" /\ eI < eIn.n
    /\ eLast' = eAttempt
    /\ eSleeps' = IF eAttempt < eIn.maxRetries - 1
                  THEN Append(eSleeps, [after |-> eAttempt,
                                        seconds |-> Backoff(eAttempt)])
                  ELSE eSleeps
    /\ eAttempt' = eAttempt + 1
    /\ ePc' = "loop"
    /\ UNCHANGED <<embedRest, eTries, eI, eAll>>

\* every batch of the attempt is in: return all_embeddings
EmbedReturn ==
    /\ ePc = "batches" /\ eI >= eIn.n
    /\ ePc' = "returned"
    /\ UNCHANGED <<embedRest, eAttempt, eTries, eI, eAll, eSleeps, eLast>>

\* the loop is exhausted: raise last_exception
EmbedRaiseLast ==
    /\ ePc = "loop" /\ eAttempt >= eIn.maxRetries
    /\ ePc' = "raised"
    /\ UNCHANGED <<embedRest, eAttempt, eTries, eI, eAll, eSleeps, eLast>>

NextEmbed ==
    \/ EmbedAttemptBegin
    \/ \E short \in BOOLEAN : EmbedBatch(short)
    \/ EmbedBatchRaise
    \/ EmbedReturn
    \/ EmbedRaiseLast

SpecEmbed == InitEmbed /\ [][NextEmbed]_vars

\* C19: get_embeddings makes at most max_retries attempts; after a failed
\* attempt that is not the last it waits min(2^attempt, 10) seconds and it
\* does not wait after the last; when every attempt has failed it raises the
\* exception of the last attempt.
C19_BoundedRetriesWithBackoff ==
    ePc # "idle" =>
        /\ eTries <= eIn.maxRetries
        /\ Len(eSleeps) = Min(eAttempt, eIn.maxRetries - 1)
        /\ \A k \in 1..Len(eSleeps) :
               /\ eSleeps[k].after = k - 1
               /\ eSleeps[k].seconds = IF Pow2(k - 1) < 10 THEN Pow2(k - 1) ELSE 10
        /\ ePc = "raised" =>
               /\ eTries = eIn.maxRetries
               /\ eAttempt = eIn.maxRetries
               /\ eLast = eIn.maxRetries - 1

C19_Witness ==
    /\ ePc = "raised"
    /\ eIn.maxRetries = MaxRetriesArg
    /\ eTries = MaxRetriesArg
    /\ Len(eSleeps) = MaxRetriesArg - 1
    /\ eSleeps[3].seconds = 4
    /\ eSleeps[5].seconds = 10

(***************************************************************************)
(* chunk_text of the processing service as a function of its arguments.    *)
(* The text is the sequence of its paragraphs ('\n\n' apart), each given   *)
(* by its length in characters after strip(); 0 is a blank paragraph.  A   *)
(* chunk is the sequence of the paragraphs its text joins.                 *)
(***************************************************************************)
MaxParas == 3

CharsPerToken == 4
SeparatorLen == 2

ParagraphLengths == {0, 3, 8, 2000}
MaxTokenValues == {2, 800}
OverlapValues == {0, 1, 100}

\* count_tokens of a text of that many characters
CountTokens(chars) == chars \div CharsPerToken

\* the paragraphs that survive `if p.strip()`, by position in the text
RECURSIVE NonBlankFrom(_)
NonBlankFrom(i) ==
    IF i > Len(ckIn.paragraphs) THEN <<>>
    ELSE IF ckIn.paragraphs[i] > 0 THEN <<i>> \o NonBlankFrom(i + 1)
    ELSE NonBlankFrom(i + 1)

\* characters of '\n\n'.join over these paragraphs
RECURSIVE JoinLen(_)
JoinLen(ps) ==
    IF ps = <<>> THEN 0
    ELSE IF Len(ps) = 1 THEN ckIn.paragraphs[ps[1]]
    ELSE ckIn.paragraphs[ps[1]] + SeparatorLen + JoinLen(Tail(ps))

\* the paragraphs of a list of texts, each text a join of paragraphs
RECURSIVE Flatten(_)
Flatten(elems) ==
    IF elems = <<>> THEN <<>> ELSE Head(elems) \o Flatten(Tail(elems))

\* variant: the slice is taken from the front, current_chunk[:k]
FirstElems(cur, k) == SubSeq(cur, 1, IF Len(cur) > k THEN k ELSE Len(cur))

\* current_chunk[-k:]
LastElems(cur, k) ==
    SubSeq(cur, IF Len(cur) > k THEN Len(cur) - k + 1 ELSE 1, Len(cur))

MakeChunk(cur, curLen, number) ==
    [paras |-> Flatten(cur), token_count |-> curLen, chunk_number |-> number]

\* the loop over the paragraphs and the final flush
RECURSIVE ChunkLoop(_, _, _, _)
ChunkLoop(todo, out, cur, curLen) ==
    IF todo = <<>>
    THEN IF cur # <<>> THEN Append(out, MakeChunk(cur, curLen, Len(out) + 1))
         ELSE out
    ELSE LET para == Head(todo)
             paraLen == CountTokens(ckIn.paragraphs[para])
             flush == curLen + paraLen > ckIn.max_tokens /\ cur # <<>>
             carried == Flatten(LastElems(cur, ckIn.overlap))
             out2 == IF flush
                     THEN Append(out, MakeChunk(cur, curLen, Len(out) + 1))
                     ELSE out
             cur2 == IF ~flush THEN cur
                     ELSE IF ckIn.overlap > 0 THEN <<carried>> ELSE <<>>
             len2 == IF ~flush THEN curLen
                     ELSE IF ckIn.overlap > 0 THEN CountTokens(JoinLen(carried))
                     ELSE 0
         IN  ChunkLoop(Tail(todo), out2, Append(cur2, <<para>>), len2 + paraLen)

ChunkText == ChunkLoop(NonBlankFrom(1), <<>>, <<>>, 0)

InitChunk ==
    /\ ServiceIdle
    /\ SearchFnIdle
    /\ EmbedIdle
    /\ LaterIdle
    /\ ckIn \in [paragraphs : UNION {[1..n -> ParagraphLengths] : n \in 0..MaxParas},
                 max_tokens : MaxTokenValues,
                 overlap : OverlapValues]
    /\ ckOut = [done |-> FALSE, chunks |-> <<>>]

CallChunkText ==
    /\ ~ckOut.done
    /\ ckOut' = [done |-> TRUE, chunks |-> ChunkText]
    /\ UNCHANGED <<ingestVars, chatVars, searchFnVars, embedVars, laterVars, ckIn>>

NextChunk == CallChunkText

SpecChunk == InitChunk /\ [][NextChunk]_vars

\* C20: every chunk that joins more than one paragraph has a token count of
\* at most max_tokens; only a chunk of a single paragraph may exceed it.
C20_JoinedChunksWithinMaxTokens ==
    ckOut.done =>
        \A k \in 1..Len(ckOut.chunks) :
            Len(ckOut.chunks[k].paras) > 1 =>
                ckOut.chunks[k].token_count <= ckIn.max_tokens

(***************************************************************************)
(* pdf_parser: chunk_text and extract_text_chunks_from_pdf_bytes, one      *)
(* iteration of their window loops per step.  A text is a sequence of      *)
(* characters, "x" for any printing character and " " for white space.     *)
(* chunk_text is run on the one text pages[1].  Each collected entry keeps *)
(* the window it was cut from (start, end as in the code, 0-based and      *)
(* half-open) next to its text; chunk_text itself returns the texts only.  *)
(***************************************************************************)
MaxTextLen == 5
MaxPages == 3

Texts == UNION {[1..n -> {"x", " "}] : n \in 0..MaxTextLen}

\* what page.extract_text() or "" gives for a page: nothing, white space
\* only, words with white space between them
PageTexts == {<<>>, <<" ", " ">>, <<"x", " ", " ", "x">>}

PageLists == UNION {[1..n -> PageTexts] : n \in 0..MaxPages}

\* chunk_size >= 1 and 0 <= chunk_overlap < chunk_size, the defaults included
WindowParams ==
    {<<size, overlap>> \in (1..3) \X (0..2) : overlap < size} \cup {<<1000, 200>>}

\* the positions of text[start:end] that strip() keeps: from the first to
\* the last printing character of the window
Printing(text, start, end) == {i \in (start + 1)..end : text[i] # " "}

SetMin(S) == CHOOSE m \in S : \A n \in S : m <= n
SetMax(S) == CHOOSE m \in S : \A n \in S : m >= n

\* text[start:end].strip()
Stripped(text, start, end) ==
    IF Printing(text, start, end) = {} THEN <<>>
    ELSE SubSeq(text, SetMin(Printing(text, start, end)),
                      SetMax(Printing(text, start, end)))

\* end = min(start + chunk_size, length)
WindowEnd(text, start) == Min(start + pIn.chunk_size, Len(text))

\* variant: the next window starts a whole chunk_size before the end
NextStartStuck(end) ==
    IF end - pIn.chunk_size < 0 THEN 0 ELSE end - pIn.chunk_size

\* start = end - chunk_overlap, not below 0
NextStart(end) ==
    IF end - pIn.chunk_overlap < 0 THEN 0 ELSE end - pIn.chunk_overlap

\* variant: pages are numbered from 0
PageIdxFromZero(k) == k - 1

\* page_idx of the k-th page of the document: enumerate(pages, start=1)
PageIdx(k) == k

\* variant: the segment is collected whatever it holds
CollectedUnfiltered(text, page, start) ==
    Append(pOut, [text |-> Stripped(text, start, WindowEnd(text, start)),
                  page |-> page, start |-> start,
                  end |-> WindowEnd(text, start)])

\* the list after the window at start: its stripped text is appended
\* unless it is empty
Collected(text, page, start) ==
    IF Stripped(text, start, WindowEnd(text, start)) = <<>> THEN pOut
    ELSE Append(pOut, [text |-> Stripped(text, start, WindowEnd(text, start)),
                       page |-> page, start |-> start,
                       end |-> WindowEnd(text, start)])

InitWindow ==
    /\ ServiceIdle
    /\ SearchFnIdle
    /\ EmbedIdle
    /\ ChunkIdle
    /\ UpsertIdle
    /\ UploadIdle
    /\ \E prm \in WindowParams :
           \/ \E t \in Texts :
                  pIn = [fn |-> "chunk_text", pages |-> <<t>>,
                         chunk_size |-> prm[1], chunk_overlap |-> prm[2]]
           \/ \E ps \in PageLists :
                  pIn = [fn |-> "extract", pages |-> ps,
                         chunk_size |-> prm[1], chunk_overlap |-> prm[2]]
    /\ pPc = "start"
    /\ pPage = 1
    /\ pStart = 0
    /\ pOut = <<>>

windowRest == <<ingestVars, chatVars, searchFnVars, embedVars, chunkVars,
                upsertVars, uploadVars, pIn>>

\* chunk_text: `if not text: return []`
ChunkTextEmpty ==
    /\ pPc = "start" /\ pIn.fn = "chunk_text" /\ pIn.pages[1] = <<>>
    /\ pPc' = "done"
    /\ UNCHANGED <<windowRest, pPage, pStart, pOut>>

\* chunk_text: start = 0 and into the loop
ChunkTextEnter ==
    /\ pPc = "start" /\ pIn.fn = "chunk_text" /\ pIn.pages[1] # <<>>
    /\ pStart' = 0
    /\ pPc' = "window"
    /\ UNCHANGED <<windowRest, pPage, pOut>>

\* chunk_text: one iteration of `while start < length`
ChunkTextWindow ==
    /\ pPc = "window" /\ pStart < Len(pIn.pages[1])
    /\ pOut' = Collected(pIn.pages[1], 1, pStart)
    /\ IF WindowEnd(pIn.pages[1], pStart) = Len(pIn.pages[1])
       THEN pPc' = "done" /\ pStart' = pStart
       ELSE pPc' = pPc /\ pStart' = NextStart(WindowEnd(pIn.pages[1], pStart))
    /\ UNCHANGED <<windowRest, pPage>>

\* extract: the pages are read and the page loop begins
ExtractEnter ==
    /\ pPc = "start" /\ pIn.fn = "extract"
    /\ pPage' = 1
    /\ pPc' = "page"
    /\ UNCHANGED <<windowRest, pStart, pOut>>

\* extract: the page loop takes page pPage; an empty page never enters the
\* window loop
ExtractPage ==
    /\ pPc = "page" /\ pPage <= Len(pIn.pages)
    /\ pStart' = 0
    /\ IF Len(pIn.pages[pPage]) = 0
       THEN pPage' = pPage + 1 /\ pPc' = pPc
       ELSE pPage' = pPage /\ pPc' = "pwindow"
    /\ UNCHANGED <<windowRest, pOut>>

\* extract: one iteration of the window loop of page pPage
ExtractWindow ==
    /\ pPc = "pwindow" /\ pStart < Len(pIn.pages[pPage])
    /\ pOut' = Collected(pIn.pages[pPage], PageIdx(pPage), pStart)
    /\ IF WindowEnd(pIn.pages[pPage], pStart) = Len(pIn.pages[pPage])
       THEN pPc' = "page" /\ pPage' = pPage + 1 /\ pStart' = pStart
       ELSE /\ pPc' = pPc /\ pPage' = pPage
            /\ pStart' = NextStart(WindowEnd(pIn.pages[pPage], pStart))
    /\ UNCHANGED windowRest

\* extract: the page loop is over
ExtractReturn ==
    /\ pPc = "page" /\ pPage > Len(pIn.pages)
    /\ pPc' = "done"
    /\ UNCHANGED <<windowRest, pPage, pStart, pOut>>

NextWindow ==
    \/ ChunkTextEmpty
    \/ ChunkTextEnter
    \/ ChunkTextWindow
    \/ ExtractEnter
    \/ ExtractPage
    \/ ExtractWindow
    \/ ExtractReturn

SpecWindow == InitWindow /\ [][NextWindow]_vars

\* a call of either chunker
InitChunkers == InitChunk \/ InitWindow

\* the call that was drawn runs
NextChunkers ==
    \/ pIn.fn = "none" /\ NextChunk
    \/ NextWindow

SpecChunkers == InitChunkers /\ [][NextChunkers]_vars

\* ------------------------------------------------ properties of the chunkers

\* how many leading entries of cur repeat the last entries of prev
SharedLen(prev, cur) ==
    SetMax({m \in 0..Min(Len(prev), Len(cur)) :
               SubSeq(cur, 1, m) = SubSeq(prev, Len(prev) - m + 1, Len(prev))})

\* the chunks in order, each without the prefix it shares with the end of
\* the chunk before it
RECURSIVE Reassembled(_, _)
Reassembled(chs, k) ==
    IF k > Len(chs) THEN <<>>
    ELSE IF k = 1 THEN chs[1] \o Reassembled(chs, 2)
    ELSE SubSeq(chs[k], SharedLen(chs[k - 1], chs[k]) + 1, Len(chs[k]))
             \o Reassembled(chs, k + 1)

\* the positions of the text a collected window text stands for
Positions(c) ==
    LET from == SetMin(Printing(pIn.pages[1], c.start, c.end))
        to == SetMax(Printing(pIn.pages[1], c.start, c.end))
    IN  [i \in 1..(to - from + 1) |-> from + i - 1]

\* the printing characters of the text, by position, in order
PrintingPositions ==
    SelectSeq([i \in 1..Len(pIn.pages[1]) |-> i],
              LAMBDA i : pIn.pages[1][i] # " ")

C22_NoEmptyChunks ==
    /\ ckOut.done =>
           /\ NonBlankFrom(1) = <<>> => ckOut.chunks = <<>>
           /\ \A k \in 1..Len(ckOut.chunks) :
                  /\ ckOut.chunks[k].paras # <<>>
                  /\ \A i \in 1..Len(ckOut.chunks[k].paras) :
                         ckIn.paragraphs[ckOut.chunks[k].paras[i]] > 0
    /\ pPc = "done" =>
           /\ (\A k \in 1..Len(pIn.pages) : pIn.pages[k] = <<>>) => pOut = <<>>
           /\ \A k \in 1..Len(pOut) :
                  /\ pOut[k].text # <<>>
                  /\ \E i \in 1..Len(pOut[k].text) : pOut[k].text[i] # " "
                  /\ pOut[k].text[1] # " "
                  /\ pOut[k].text[Len(pOut[k].text)] # " "

C22_Witness ==
    /\ pPc = "done"
    /\ pIn.fn = "chunk_text"
    /\ pIn.chunk_size = 2
    /\ pIn.pages[1] = <<"x", " ", " ", " ", "x">>
    /\ Len(pOut) = 2

\* C23: extract_text_chunks_from_pdf_bytes emits no chunk for an empty page,
\* tags every chunk with the 1-based index of the page it was cut from, and
\* emits the chunks in ascending page order.
C23_ChunksCarryTheirPage ==
    (pPc = "done" /\ pIn.fn = "extract") =>
        /\ \A k \in 1..Len(pOut) :
               /\ pOut[k].page \in 1..Len(pIn.pages)
               /\ pIn.pages[pOut[k].page] # <<>>
               /\ pOut[k].end <= Len(pIn.pages[pOut[k].page])
               /\ pOut[k].text =
                      Stripped(pIn.pages[pOut[k].page], pOut[k].start, pOut[k].end)
               /\ pOut[k].text # <<>>
        /\ \A k, l \in 1..Len(pOut) : k < l => pOut[k].page <= pOut[l].page
        /\ \A q \in 1..Len(pIn.pages) :
               Printing(pIn.pages[q], 0, Len(pIn.pages[q])) # {}
                   => \E k \in 1..Len(pOut) : pOut[k].page = q

C23_Witness ==
    /\ pPc = "done"
    /\ pIn.fn = "extract"
    /\ Len(pIn.pages) = 3
    /\ pIn.pages[1] # <<>>
    /\ pIn.pages[2] = <<>>
    /\ pIn.pages[3] # <<>>
    /\ {pOut[k].page : k \in 1..Len(pOut)} = {1, 3}
    /\ Len(pOut) > 2

\* the window loops run to their end: no iteration is held back
SpecWindowFair == SpecWindow /\ WF_vars(NextWindow)

\* C27: with chunk_size >= 1 and 0 <= chunk_overlap < chunk_size the window
\* loops of chunk_text and extract_text_chunks_from_pdf_bytes terminate: the
\* start offset grows on every iteration that stays in the loop, and the
\* call returns.
C27_WindowLoopsTerminate ==
    /\ [][(pPc \in {"window", "pwindow"} /\ pPc' = pPc) => pStart' > pStart]_vars
    /\ <>(pPc = "done")

C27_Witness ==
    /\ pPc = "done"
    /\ pIn.fn = "chunk_text"
    /\ pIn.chunk_size = 3
    /\ pIn.chunk_overlap = 2
    /\ Len(pIn.pages[1]) = MaxTextLen
    /\ Len(pOut) >= 3

(***************************************************************************)
(* POST /upload_link (endpoints/documents.py).  A link is given by the     *)
(* branch of _resolve_download_url it takes, fetched bytes by their        *)
(* SHA-256.  Requests may be served by different instances, so they        *)
(* interleave between the calls on the documents table.                    *)
(***************************************************************************)
NoHash == 0
Hashes == {1, 2}

\* the links _resolve_download_url tells apart: a Drive link with and
\* without a file id, a Dropbox / OneDrive / GitHub blob link, a path ending
\* in .pdf, a link whose HEAD reports a PDF, a page holding a PDF link, and
\* a link that is none of these
LinkKinds == {"drive", "drive_no_id", "share", "pdf_path", "head_pdf",
              "page_link", "other"}

\* variant: a link that is none of the known kinds is passed on as it is
ResolvesAlways(kind) == kind # "drive_no_id"

\* _resolve_download_url returns a download URL
Resolves(kind) ==
    kind \in {"drive", "share", "pdf_path", "head_pdf", "page_link"}

\* the detail of the HTTPException(400) it raises otherwise
ResolveError(kind) ==
    IF kind = "drive_no_id" THEN "Unsupported Google Drive link format"
    ELSE "Unsupported link type"

UploadError(code, detail) ==
    [code |-> code, detail |-> detail, document_id |-> 0, deduplicated |-> FALSE]

\* the rows with that content_hash: .eq("content_hash", sha256)
Existing(h) == {row \in documents : row.content_hash = h}

InitUpload ==
    /\ ServiceIdle
    /\ SearchFnIdle
    /\ EmbedIdle
    /\ ChunkIdle
    /\ WindowIdle
    /\ UpsertIdle
    /\ UploadIdle

uploadRest == <<ingestVars, chatVars, searchFnVars, embedVars, chunkVars,
                windowVars, upsertVars>>

\* the request arrives and its link is resolved
UploadResolve(c, kind) ==
    /\ ulPc[c] = "idle"
    /\ ulUrl' = [ulUrl EXCEPT ![c] = kind]
    /\ IF Resolves(kind)
       THEN ulPc' = [ulPc EXCEPT ![c] = "fetch"] /\ ulResp' = ulResp
       ELSE /\ ulPc' = [ulPc EXCEPT ![c] = "done"]
            /\ ulResp' = [ulResp EXCEPT ![c] = UploadError(400, ResolveError(kind))]
    /\ UNCHANGED <<uploadRest, ulHash, documents, storage>>

\* fetch_bytes_from_url raises
UploadFetchRaise(c) ==
    /\ ulPc[c] = "fetch"
    /\ ulPc' = [ulPc EXCEPT ![c] = "done"]
    /\ ulResp' = [ulResp EXCEPT ![c] = UploadError(400, "Cannot fetch PDF")]
    /\ UNCHANGED <<uploadRest, ulUrl, ulHash, documents, storage>>

\* the bytes arrive: their hash is taken and the %PDF- header is tested
UploadFetch(c, h, isPdf) ==
    /\ ulPc[c] = "fetch"
    /\ ulHash' = [ulHash EXCEPT ![c] = h]
    /\ IF isPdf
       THEN ulPc' = [ulPc EXCEPT ![c] = "store"] /\ ulResp' = ulResp
       ELSE /\ ulPc' = [ulPc EXCEPT ![c] = "done"]
            /\ ulResp' = [ulResp EXCEPT
                   ![c] = UploadError(400, "Fetched file is not a valid PDF")]
    /\ UNCHANGED <<uploadRest, ulUrl, documents, storage>>

\* the bytes are uploaded to uploads/<sha256>.pdf
UploadStore(c) ==
    /\ ulPc[c] = "store"
    /\ storage' = storage \cup {[content |-> ulHash[c], by |-> c]}
    /\ ulPc' = [ulPc EXCEPT ![c] = "select"]
    /\ UNCHANGED <<uploadRest, ulUrl, ulHash, ulResp, documents>>

\* the lookup by content_hash: an existing row is returned as the answer
UploadSelect(c) ==
    /\ ulPc[c] = "select"
    /\ IF Existing(ulHash[c]) # {}
       THEN /\ ulPc' = [ulPc EXCEPT ![c] = "done"]
            /\ \E row \in Existing(ulHash[c]) :
                   ulResp' = [ulResp EXCEPT
                       ![c] = [code |-> 200, detail |-> "existing",
                               document_id |-> row.id, deduplicated |-> TRUE]]
       ELSE ulPc' = [ulPc EXCEPT ![c] = "insert"] /\ ulResp' = ulResp
    /\ UNCHANGED <<uploadRest, ulUrl, ulHash, documents, storage>>

\* _safe_insert_document: the full row, or when that insert raises the
\* minimal row of id, status, title and file_path
UploadInsert(c, full) ==
    /\ ulPc[c] = "insert"
    /\ documents' = documents \cup
           {[id |-> c, content |-> ulHash[c],
             content_hash |-> IF full THEN ulHash[c] ELSE NoHash]}
    /\ ulPc' = [ulPc EXCEPT ![c] = "done"]
    /\ ulResp' = [ulResp EXCEPT
           ![c] = [code |-> 200, detail |-> "processing",
                   document_id |-> c, deduplicated |-> FALSE]]
    /\ UNCHANGED <<uploadRest, ulUrl, ulHash, storage>>

\* the storage upload, the lookup or both inserts raise: nothing in
\* upload_link catches it
UploadRaise(c) ==
    /\ ulPc[c] \in {"store", "select", "insert"}
    /\ ulPc' = [ulPc EXCEPT ![c] = "done"]
    /\ ulResp' = [ulResp EXCEPT ![c] = UploadError(500, "Internal Server Error")]
    /\ UNCHANGED <<uploadRest, ulUrl, ulHash, documents, storage>>

NextUpload ==
    \/ \E c \in Uploads, kind \in LinkKinds : UploadResolve(c, kind)
    \/ \E c \in Uploads : UploadFetchRaise(c)
    \/ \E c \in Uploads, h \in Hashes, isPdf \in BOOLEAN : UploadFetch(c, h, isPdf)
    \/ \E c \in Uploads : UploadStore(c)
    \/ \E c \in Uploads : UploadSelect(c)
    \/ \E c \in Uploads, full \in BOOLEAN : UploadInsert(c, full)
    \/ \E c \in Uploads : UploadRaise(c)

SpecUpload == InitUpload /\ [][NextUpload]_vars

\* C24: an upload_link request whose link cannot be resolved to a PDF is
\* answered 400 "Unsupported link type"; nothing is uploaded to storage and
\* no document row is inserted for it.
C24_UnsupportedLinkIsRejected ==
    \A c \in Uploads :
        ulUrl[c] = "other" =>
            /\ ulPc[c] = "done"
            /\ ulResp[c] = UploadError(400, "Unsupported link type")
            /\ \A obj \in storage : obj.by # c
            /\ \A row \in documents : row.id # c

C24_Witness ==
    /\ ulUrl[1] = "other"
    /\ ulResp[1].code = 400
    /\ ulUrl[2] = "page_link"
    /\ ulResp[2].code = 200
    /\ \E row \in documents : row.id = 2

\* C29: the documents table never holds two rows for the same content: an
\* upload_link of bytes an existing document was made from inserts nothing
\* and answers with the existing id and deduplicated = true.
C29_OneDocumentPerContent ==
    /\ \A r1, r2 \in documents : r1.content = r2.content => r1 = r2
    /\ \A c \in Uploads :
           (ulPc[c] = "done" /\ ulResp[c].code = 200 /\ ~ulResp[c].deduplicated)
               => \A row \in documents : row.content = ulHash[c] => row.id = c

(***************************************************************************)
(* vectorstore.upsert_chunks_with_embeddings as a function of its          *)
(* arguments.  A chunk is given by its text, an embedding by a number.     *)
(***************************************************************************)
MaxUpsert == 3

ChunkLists == UNION {[1..n -> {"a", "b"}] : n \in 0..MaxUpsert}
EmbeddingLists == UNION {[1..n -> {10, 20}] : n \in 0..MaxUpsert}

\* the rows built from zip(chunks, embeddings), chunk_index from enumerate
UpsertRows(chs, embs) ==
    [i \in 1..Min(Len(chs), Len(embs)) |->
        [chunk_index |-> i - 1, content |-> chs[i], embedding |-> embs[i]]]

UpsertChunksWithEmbeddings(in) ==
    IF in.chunks = <<>> THEN [ended |-> "returned", rows |-> <<>>]
    ELSE IF Len(in.chunks) # Len(in.embeddings)
         THEN [ended |-> "ValueError", rows |-> <<>>]
    ELSE IF in.insertRaises THEN [ended |-> "store_error", rows |-> <<>>]
    ELSE [ended |-> "returned", rows |-> UpsertRows(in.chunks, in.embeddings)]

InitUpsert ==
    /\ ServiceIdle
    /\ SearchFnIdle
    /\ EmbedIdle
    /\ ChunkIdle
    /\ WindowIdle
    /\ UploadIdle
    /\ uIn \in [chunks : ChunkLists, embeddings : EmbeddingLists,
                insertRaises : BOOLEAN]
    /\ uOut = [ended |-> "none", rows |-> <<>>]

CallUpsert ==
    /\ uOut.ended = "none"
    /\ uOut' = UpsertChunksWithEmbeddings(uIn)
    /\ UNCHANGED <<ingestVars, chatVars, searchFnVars, embedVars, chunkVars,
                   windowVars, uploadVars, uIn>>

NextUpsert == CallUpsert

SpecUpsert == InitUpsert /\ [][NextUpsert]_vars

\* C25: when the number of chunks differs from the number of embeddings the
\* call raises ValueError and inserts no row; otherwise it inserts one row
\* per chunk, row i with chunk i, embedding i and chunk_index i from 0.
C25_UpsertChecksCounts ==
    (uOut.ended # "none" /\ ~uIn.insertRaises) =>
        IF Len(uIn.chunks) # Len(uIn.embeddings)
        THEN uOut.ended = "ValueError" /\ uOut.rows = <<>>
        ELSE /\ uOut.ended = "returned"
             /\ Len(uOut.rows) = Len(uIn.chunks)
             /\ \A i \in 1..Len(uOut.rows) :
                    /\ uOut.rows[i].chunk_index = i - 1
                    /\ uOut.rows[i].content = uIn.chunks[i]
                    /\ uOut.rows[i].embedding = uIn.embeddings[i]

\* C26: when get_embeddings returns, the list comes from one attempt:
\* entry i is the vector the provider gave for text i, the batches follow
\* each other in input order, and nothing of a failed attempt is in it.
C26_ResultFromOneAttempt ==
    ePc = "returned" =>
        /\ Len(eAll) = eIn.n
        /\ \A i \in 1..Len(eAll) : eAll[i] = [attempt |-> eAttempt, text |-> i]

\* ------------------------------------------------ one admitted worker run
\* The two endpoints of process.py with any number of queue requests and of
\* refused worker requests, and one worker request that passes the header
\* check and runs process_document to its end.

\* no worker request has passed the header check yet
NoRunAdmitted == \A r \in Runs : wPc[r] \in {"idle", "done_403"}

NextOneRun ==
    \/ UNCHANGED <<chatVars, pureVars>> /\ \E q \in QReqs, d \in Docs : QueueRequest(q, d)
    \/ UNCHANGED <<chatVars, pureVars>> /\ \E q \in QReqs : CreateTaskOk(q)
    \/ UNCHANGED <<chatVars, pureVars>> /\ \E q \in QReqs : CreateTaskFail(q)
    \/ UNCHANGED <<chatVars, pureVars>> /\ \E q \in QReqs : QueueFail(q)
    \/ UNCHANGED <<chatVars, pureVars>> /\ \E r \in Runs, d \in Docs, hdr \in BOOLEAN : WorkerReject(r, d, hdr)
    \/ UNCHANGED <<chatVars, pureVars>> /\ \E r \in Runs, d \in Docs, hdr \in BOOLEAN : NoRunAdmitted /\ WorkerBegin(r, d, hdr)
    \/ UNCHANGED <<chatVars, pureVars>> /\ \E r \in Runs : PDBegin(r)
    \/ UNCHANGED <<chatVars, pureVars>> /\ \E r \in Runs, f \in LoadStages \cup {"none"} : PDLoadAndChunk(r, f)
    \/ UNCHANGED <<chatVars, pureVars>> /\ \E r \in Runs : PDEmbedRaise(r)
    \/ UNCHANGED <<chatVars, pureVars>> /\ \E r \in Runs, k \in 0..NumChunks : PDEmbed(r, k)
    \/ UNCHANGED <<chatVars, pureVars>> /\ \E r \in Runs : PDCreateChunk(r)
    \/ UNCHANGED <<chatVars, pureVars>> /\ \E r \in Runs : PDCreateChunkRaise(r)
    \/ UNCHANGED <<chatVars, pureVars>> /\ \E r \in Runs : PDSetCompleted(r)
    \/ UNCHANGED <<chatVars, pureVars>> /\ \E r \in Runs : WorkerSetCompleted(r)
    \/ UNCHANGED <<chatVars, pureVars>> /\ \E r \in Runs : PDFailInner(r)
    \/ UNCHANGED <<chatVars, pureVars>> /\ \E r \in Runs : PDFailOuter(r)
    \/ UNCHANGED <<chatVars, pureVars>> /\ \E r \in Runs : WorkerFailInner(r)
    \/ UNCHANGED <<chatVars, pureVars>> /\ \E r \in Runs : WorkerFailMiddle(r)
    \/ UNCHANGED <<chatVars, pureVars>> /\ \E r \in Runs : WorkerFailOuter(r)

SpecOneRun == Init /\ [][NextOneRun]_vars

\* a queue request between its QUEUED write and the answer of create_task,
\* or one whose task was created
QueuedBy(q, d) == qDoc[q] = d /\ qPc[q] \in {"create_task", "done_queued"}

WorkerRequest(r, d, hdr) == WorkerReject(r, d, hdr) \/ WorkerBegin(r, d, hdr)

\* C30: in production a worker request without the X-CloudTasks-QueueName
\* header ends with 403, writes nothing to the document store and starts
\* no ingestion run.
C30_HeaderlessWorkerRequestIsRefused ==
    [][\A r \in Runs, d \in Docs :
          (env = "production" /\ WorkerRequest(r, d, FALSE)) =>
              /\ wPc'[r] = "done_403"
              /\ wWrites'[r] = {}
              /\ UNCHANGED <<status, errmsg, chunks, tasks>>
              /\ \A r2 \in Runs : Active(r2)' => Active(r2)]_vars

\* a refused request left the queued document as it was
C30_Witness ==
    /\ env = "production"
    /\ \E r \in Runs :
           /\ wPc[r] = "done_403"
           /\ wWrites[r] = {}
           /\ status[wDoc[r]] = "queued"
           /\ tasks[wDoc[r]] > 0

====
